---- MODULE Spec2Model ----
(***************************************************************************)
(* Focus: a Pomodoro timer (PomodoroTimer class).                          *)
(*                                                                         *)
(* Two builds of the class are modelled side by side, selected by the      *)
(* variable build:                                                         *)
(*   "app"     src/js/app.js            - the next phase starts at once    *)
(*   "part002" src/unnamed/part_002     - (first class of the file) a      *)
(*             Focus completion starts the break after a 2 s timeout, a    *)
(*             break completion waits for the user                         *)
(* The object's fields are the variables; every handler is an operator on  *)
(* the record of the fields (Self), composed the way the code calls them.  *)
(***************************************************************************)
EXTENDS Integers, FiniteSets, Sequences, TLC

VARIABLES
    build,            \* which build of the class runs
    settings,         \* this.settings: [focus, short, long] in minutes
    currentMode,      \* this.currentMode: "focus" | "short" | "long"
    timeLeft,         \* this.timeLeft, seconds
    totalTime,        \* this.totalTime, seconds
    isRunning,        \* this.isRunning
    interval,         \* this.interval: "null" | "live" | "cleared" (the handle's interval)
    leaked,           \* live intervals whose handle this.interval no longer holds
    autoStart,        \* the pending setTimeout of part_002's completeTimer:
                      \*   "none" | "armed" | "due" (due: one tick has passed since armed)
    currentSession,   \* this.currentSession
    sessionsToday,    \* this.sessionsToday
    totalFocusTime,   \* this.totalFocusTime, minutes
    streak,           \* this.streak
    completedCycles,  \* this.completedCycles (part_002 only)
    store,            \* localStorage: timerSettings, pomodoroProgress, lastSessionDate
    today,            \* the calendar day (new Date().toDateString()), as a day number
    focusDone,        \* history: Focus completions since construction
    lastCompleted,    \* history: the mode whose completion the last event ran, or "none"
    freshRun,         \* history: the ticks-only run since a start of a fresh Focus phase
    startedAt,        \* history: timeLeft before the last start, while only pause followed
    lastOp,           \* history: "reset" / "update" with how the timer was when the last
                      \*   event ran resetTimer / updateSettings while paused, else "none"
    lastInput,        \* history: the three values the last settings event read
    sw,               \* the service worker (src/unnamed/part_000) and its cache storage
    clock,            \* new Date(): [hour, long, short] - the hours since local midnight,
                      \*   and the days of the time zone that last 25 and 23 hours
    pageOpen,         \* the page is open (FALSE: unloaded, the object is gone)
    ambient           \* the ambient audio of src/js/app.js: the object's audio fields,
                      \*   the Audio elements, the selections in flight, localStorage

vars == <<build, settings, currentMode, timeLeft, totalTime, isRunning, interval,
          leaked, autoStart, currentSession, sessionsToday, totalFocusTime, streak,
          completedCycles, store, today, focusDone, lastCompleted, freshRun,
          startedAt, lastOp, lastInput, sw, clock, pageOpen, ambient>>

-----------------------------------------------------------------------------
(* Bounds of the model *)

\* Focus completions are disabled once sessionsToday reaches this
MaxSessions == 8
\* break completions of part_002 are disabled once completedCycles reaches this
MaxCycles == 2
\* leaked intervals are counted up to this
MaxLeaked == 2
\* the progress specification: the last calendar day
MaxDay == 3
\* the progress specification: Focus completions are disabled once
\* sessionsToday reaches this
MaxSessionsADay == 2
\* the progress specification: the page is not opened over a stored streak
\* of this length
MaxStreak == 4

-----------------------------------------------------------------------------
(* Program constants *)

SecondsPerMinute == 60
SessionsPerCycle == 4
DefaultFocus == 25
DefaultShort == 5
DefaultLong == 15
HoursPerDay == 24

Builds == {"app", "part002"}
Modes == {"focus", "short", "long"}

\* the accepted range of each setting: app.js 1-60 / 1-30 / 1-60,
\* part_002 5-60 / 1-15 / 5-30
SettingsBounds(b) ==
    IF b = "app"
    THEN [focus |-> [lo |-> 1, hi |-> 60], short |-> [lo |-> 1, hi |-> 30],
          long |-> [lo |-> 1, hi |-> 60]]
    ELSE [focus |-> [lo |-> 5, hi |-> 60], short |-> [lo |-> 1, hi |-> 15],
          long |-> [lo |-> 5, hi |-> 30]]

\* (mutant) only the lower end of the range is tested
ValidatedLowerOnly(b, k, v, old) ==
    LET r == SettingsBounds(b)[k]
    IN  IF v >= r.lo THEN v ELSE old

\* `if (v >= lo && v <= hi) this.settings.k = v`
Validated(b, k, v, old) ==
    LET r == SettingsBounds(b)[k]
    IN  IF v >= r.lo /\ v <= r.hi THEN v ELSE old

-----------------------------------------------------------------------------
(* The object as a record *)

Self ==
    [build |-> build, settings |-> settings, currentMode |-> currentMode,
     timeLeft |-> timeLeft, totalTime |-> totalTime, isRunning |-> isRunning,
     interval |-> interval, leaked |-> leaked, autoStart |-> autoStart,
     currentSession |-> currentSession, sessionsToday |-> sessionsToday,
     totalFocusTime |-> totalFocusTime, streak |-> streak,
     completedCycles |-> completedCycles, store |-> store, today |-> today,
     focusDone |-> focusDone, lastCompleted |-> "none", clock |-> clock]

Becomes(t) ==
    /\ build' = t.build
    /\ settings' = t.settings
    /\ currentMode' = t.currentMode
    /\ timeLeft' = t.timeLeft
    /\ totalTime' = t.totalTime
    /\ isRunning' = t.isRunning
    /\ interval' = t.interval
    /\ leaked' = t.leaked
    /\ autoStart' = t.autoStart
    /\ currentSession' = t.currentSession
    /\ sessionsToday' = t.sessionsToday
    /\ totalFocusTime' = t.totalFocusTime
    /\ streak' = t.streak
    /\ completedCycles' = t.completedCycles
    /\ store' = t.store
    /\ today' = t.today
    /\ focusDone' = t.focusDone
    /\ lastCompleted' = t.lastCompleted
    /\ clock' = t.clock

-----------------------------------------------------------------------------
(* Persistence *)

\* localStorage.setItem('pomodoroProgress', ...); part_002 adds cycles
saveProgress(t) ==
    [t EXCEPT !.store.progress =
        [saved |-> TRUE, date |-> t.today, sessions |-> t.sessionsToday,
         focusTime |-> t.totalFocusTime, streak |-> t.streak,
         cycles |-> IF t.build = "part002" THEN t.completedCycles ELSE 0]]

\* localStorage.setItem('timerSettings', JSON.stringify(this.settings))
saveSettings(t) ==
    [t EXCEPT !.store.timerSettings =
        [saved |-> TRUE, focus |-> t.settings.focus, short |-> t.settings.short,
         long |-> t.settings.long]]

\* part_002 only: the streak moves on the first completion after a Focus session
\* of a day whose date is not yet in lastSessionDate
updateStreak(t) ==
    IF t.sessionsToday > 0 /\ t.store.lastSessionDate # {t.today}
    THEN [t EXCEPT !.streak = IF t.store.lastSessionDate = {t.today - 1}
                              THEN @ + 1 ELSE 1,
                   !.store.lastSessionDate = {t.today}]
    ELSE t

-----------------------------------------------------------------------------
(* Timer operations *)

\* app.js switchMode: no guard of its own (the tab's click handler guards)
switchMode_app(t, mode) ==
    [t EXCEPT !.currentMode = mode,
              !.timeLeft = t.settings[mode] * SecondsPerMinute,
              !.totalTime = t.settings[mode] * SecondsPerMinute]

\* part_002 switchMode: `if (this.isRunning) return;`
switchMode_part002(t, mode) ==
    IF t.isRunning THEN t ELSE switchMode_app(t, mode)

switchMode(t, mode) ==
    IF t.build = "app" THEN switchMode_app(t, mode) ELSE switchMode_part002(t, mode)

\* setInterval: the handle is overwritten; an interval it still held stays live
startTimer(t) ==
    [t EXCEPT !.isRunning = TRUE,
              !.leaked = IF t.interval = "live" THEN @ + 1 ELSE @,
              !.interval = "live"]

\* (mutant) pauseTimer without clearInterval
pauseTimerNoClear(t) ==
    [t EXCEPT !.isRunning = FALSE]

\* clearInterval(this.interval)
pauseTimer(t) ==
    [t EXCEPT !.isRunning = FALSE,
              !.interval = IF @ = "live" THEN "cleared" ELSE @]

toggleTimer(t) ==
    IF t.isRunning THEN pauseTimer(t) ELSE startTimer(t)

\* (mutant) reset also restarts the cycle of four
resetTimerRestartsCycle(t) ==
    [pauseTimer(t) EXCEPT !.timeLeft = t.totalTime, !.currentSession = 1]

\* (mutant) reset reloads the time from the settings, not from totalTime
resetTimerFromSettings(t) ==
    [pauseTimer(t) EXCEPT !.timeLeft = t.settings[t.currentMode] * SecondsPerMinute]

\* (mutant) reset rewinds the display and leaves the timer as it was
resetTimerKeepsRunning(t) ==
    [t EXCEPT !.timeLeft = t.totalTime]

resetTimer(t) ==
    [pauseTimer(t) EXCEPT !.timeLeft = t.totalTime]

\* (mutant) the long break comes after the third Focus phase
focusCompletedEarlyLong(t) ==
    LET counted == [t EXCEPT !.sessionsToday = @ + 1,
                             !.totalFocusTime = @ + t.settings.focus,
                             !.focusDone = @ + 1]
    IN  IF counted.currentSession = SessionsPerCycle - 1
        THEN switchMode([counted EXCEPT !.currentSession = 1], "long")
        ELSE switchMode([counted EXCEPT !.currentSession = @ + 1], "short")

\* (mutant) the session index wraps one completion late
focusCompletedLateWrap(t) ==
    LET counted == [t EXCEPT !.sessionsToday = @ + 1,
                             !.totalFocusTime = @ + t.settings.focus,
                             !.focusDone = @ + 1]
    IN  IF counted.currentSession > SessionsPerCycle
        THEN switchMode([counted EXCEPT !.currentSession = 1], "long")
        ELSE switchMode([counted EXCEPT !.currentSession = @ + 1], "short")

\* (mutant) a completed Focus phase is credited with the length it ran for
focusCompletedCreditsPhase(t) ==
    LET counted == [t EXCEPT !.sessionsToday = @ + 1,
                             !.totalFocusTime = @ + (t.totalTime \div SecondsPerMinute),
                             !.focusDone = @ + 1]
    IN  IF counted.currentSession = SessionsPerCycle
        THEN switchMode([counted EXCEPT !.currentSession = 1], "long")
        ELSE switchMode([counted EXCEPT !.currentSession = @ + 1], "short")

\* (mutant) the fourth Focus phase is followed by a short break too
focusCompletedNoLongBreak(t) ==
    LET counted == [t EXCEPT !.sessionsToday = @ + 1,
                             !.totalFocusTime = @ + t.settings.focus,
                             !.focusDone = @ + 1]
    IN  IF counted.currentSession = SessionsPerCycle
        THEN switchMode([counted EXCEPT !.currentSession = 1], "short")
        ELSE switchMode([counted EXCEPT !.currentSession = @ + 1], "short")

\* the Focus branch of completeTimer up to and including switchMode
focusCompleted(t) ==
    LET counted == [t EXCEPT !.sessionsToday = @ + 1,
                             !.totalFocusTime = @ + t.settings.focus,
                             !.focusDone = @ + 1]
    IN  IF counted.currentSession = SessionsPerCycle
        THEN switchMode([counted EXCEPT !.currentSession = 1], "long")
        ELSE switchMode([counted EXCEPT !.currentSession = @ + 1], "short")

\* (mutant) the end of a break moves the session index on
completeTimer_appBreakAdvances(t) ==
    LET paused == [pauseTimer(t) EXCEPT !.lastCompleted = t.currentMode]
        moved  == IF paused.currentMode = "focus"
                  THEN focusCompleted(paused)
                  ELSE switchMode([paused EXCEPT !.currentSession =
                                      IF @ = SessionsPerCycle THEN 1 ELSE @ + 1],
                                  "focus")
    IN  startTimer(saveProgress(moved))

\* (mutant) after a break the next Focus phase waits for the user
completeTimer_appWaitsAfterBreak(t) ==
    LET paused == [pauseTimer(t) EXCEPT !.lastCompleted = t.currentMode]
    IN  IF paused.currentMode = "focus"
        THEN startTimer(saveProgress(focusCompleted(paused)))
        ELSE saveProgress(switchMode(paused, "focus"))

completeTimer_app(t) ==
    LET paused == [pauseTimer(t) EXCEPT !.lastCompleted = t.currentMode]
        moved  == IF paused.currentMode = "focus"
                  THEN focusCompleted(paused)
                  ELSE switchMode(paused, "focus")
    IN  startTimer(saveProgress(moved))

\* part_002: the long-break path and every break completion count a cycle; a
\* Focus completion arms the 2 s auto-start timeout; saveProgress runs before
\* updateStreak
completeTimer_part002(t) ==
    LET paused == [pauseTimer(t) EXCEPT !.lastCompleted = t.currentMode]
        moved  == IF paused.currentMode = "focus"
                  THEN LET f == focusCompleted(paused)
                       IN  [f EXCEPT !.completedCycles =
                                        IF f.currentMode = "long" THEN @ + 1 ELSE @,
                                     !.autoStart = "armed"]
                  ELSE [switchMode(paused, "focus") EXCEPT !.completedCycles = @ + 1]
    IN  updateStreak(saveProgress(moved))

completeTimer(t) ==
    IF t.build = "app" THEN completeTimer_app(t) ELSE completeTimer_part002(t)

\* (mutant) completion one tick late: `< 0` for `<= 0`
tickLate(t) ==
    LET dec == [t EXCEPT !.timeLeft = @ - 1]
    IN  IF dec.timeLeft < 0 THEN completeTimer(dec) ELSE dec

\* the setInterval callback
tick(t) ==
    LET dec == [t EXCEPT !.timeLeft = @ - 1]
    IN  IF dec.timeLeft <= 0 THEN completeTimer(dec) ELSE dec

\* (mutant) the timeout starts the timer without looking at isRunning
autoStartFiredUnguarded(t) ==
    startTimer([t EXCEPT !.autoStart = "none"])

\* the setTimeout callback of part_002's completeTimer
autoStartFired(t) ==
    LET u == [t EXCEPT !.autoStart = "none"]
    IN  IF ~u.isRunning THEN startTimer(u) ELSE u

\* (mutant) the settings are stored and the display is left as it was
updateSettingsNoRefresh(t, f, s, l) ==
    saveSettings([t EXCEPT !.settings =
                    [focus |-> Validated(t.build, "focus", f, t.settings.focus),
                     short |-> Validated(t.build, "short", s, t.settings.short),
                     long  |-> Validated(t.build, "long", l, t.settings.long)]])

\* f, s, l: parseInt of the three input fields
updateSettings(t, f, s, l) ==
    LET set == [t EXCEPT !.settings =
                    [focus |-> Validated(t.build, "focus", f, t.settings.focus),
                     short |-> Validated(t.build, "short", s, t.settings.short),
                     long  |-> Validated(t.build, "long", l, t.settings.long)]]
        shown == IF ~set.isRunning THEN switchMode(set, set.currentMode) ELSE set
    IN  saveSettings(shown)

\* (mutant) the tab switches the mode whether or not the timer runs
modeTabClickedUnguarded(t, mode) ==
    switchMode(t, mode)

\* the mode tabs' click handler
modeTabClicked(t, mode) ==
    IF ~t.isRunning THEN switchMode(t, mode) ELSE t

\* the visibilitychange handler: app.js pauses any break, part_002 a short break
visibilityChanged(t, hidden) ==
    IF /\ hidden
       /\ t.isRunning
       /\ IF t.build = "app" THEN t.currentMode # "focus" ELSE t.currentMode = "short"
    THEN pauseTimer(t)
    ELSE t

-----------------------------------------------------------------------------
(* Construction *)

\* midday in a time zone whose days all last 24 hours
Noon == [hour |-> 12, long |-> {}, short |-> {}]

\* Math.floor((new Date() - new Date(progress.date)) / (1000 * 60 * 60 * 24)):
\* new Date(progress.date) is the local midnight of the saved date, and the
\* days up to now last 24 hours each, but for the long and the short ones
DaysSince(c, date, day) ==
    LET between == {d \in date..(day - 1) : TRUE}
        hours == (day - date) * HoursPerDay
                 + Cardinality(between \cap c.long)
                 - Cardinality(between \cap c.short)
                 + c.hour
    IN  hours \div HoursPerDay

\* the constructor's field initialisers
constructed(b, st, day) ==
    [build |-> b,
     settings |-> [focus |-> DefaultFocus, short |-> DefaultShort, long |-> DefaultLong],
     currentMode |-> "focus",
     timeLeft |-> DefaultFocus * SecondsPerMinute,
     totalTime |-> DefaultFocus * SecondsPerMinute,
     isRunning |-> FALSE, interval |-> "null", leaked |-> 0, autoStart |-> "none",
     currentSession |-> 1, sessionsToday |-> 0, totalFocusTime |-> 0, streak |-> 0,
     completedCycles |-> 0, store |-> st, today |-> day,
     focusDone |-> 0, lastCompleted |-> "none", clock |-> Noon]

\* loadSettings: the timer settings, then the progress record
loadSettings(t) ==
    LET ts == t.store.timerSettings
        withSettings ==
            IF ts.saved
            THEN [t EXCEPT !.settings =
                     [focus |-> Validated(t.build, "focus", ts.focus, t.settings.focus),
                      short |-> Validated(t.build, "short", ts.short, t.settings.short),
                      long  |-> Validated(t.build, "long", ts.long, t.settings.long)]]
            ELSE t
        shown == switchMode(withSettings, withSettings.currentMode)
        p == t.store.progress
        daysDiff == DaysSince(t.clock, p.date, t.today)
        sameDay ==
            IF p.date = t.today
            THEN [shown EXCEPT !.sessionsToday = p.sessions,
                               !.totalFocusTime = p.focusTime,
                               !.completedCycles =
                                   IF t.build = "part002" THEN p.cycles ELSE @]
            ELSE shown
    IN  IF ~p.saved THEN shown
        ELSE [sameDay EXCEPT !.streak =
                 IF daysDiff = 0 THEN p.streak
                 ELSE IF daysDiff = 1 /\ p.sessions > 0 THEN p.streak + 1
                 ELSE IF sameDay.sessionsToday > 0 THEN 1 ELSE 0]

\* what localStorage holds when the page is opened: the smallest accepted
\* settings and no progress record
NoProgress ==
    [saved |-> FALSE, date |-> 0, sessions |-> 0, focusTime |-> 0, streak |-> 0,
     cycles |-> 0]

InitialStores(b, day) ==
    LET r == SettingsBounds(b)
        ts == [saved |-> TRUE, focus |-> r.focus.lo, short |-> r.short.lo,
               long |-> r.long.lo]
    IN  { [timerSettings |-> ts, progress |-> NoProgress, lastSessionDate |-> {}] }

\* the values typed into a settings field: below the range, accepted, above
\* the range. app.js gets two accepted Focus lengths (60 and 120 ticks);
\* part_002, whose phases are at least 300 ticks long, one accepted value a field
FocusInputs(b) ==
    LET r == SettingsBounds(b).focus
    IN  IF b = "app" THEN {r.lo - 1, r.lo, r.lo + 1, r.hi + 1}
        ELSE {r.lo - 1, r.lo, r.hi + 1}
ShortInputs(b) ==
    LET r == SettingsBounds(b).short IN {r.lo - 1, r.lo, r.hi + 1}
LongInputs(b) ==
    LET r == SettingsBounds(b).long IN {r.lo - 1, r.lo, r.hi + 1}

-----------------------------------------------------------------------------
(* History variables *)

NoRun == [on |-> FALSE, n |-> 0, f |-> 0]

\* no settings event recorded
NoInput == <<>>

\* no service worker modelled (the timer's specifications)
NoWorker == [state |-> "none"]

\* no ambient audio modelled (every specification but the audio one)
NoAmbient == [state |-> "none"]

\* a Focus phase nothing has touched yet, on a day without sessions
Fresh(t) ==
    /\ t.currentMode = "focus"
    /\ t.timeLeft = t.settings.focus * SecondsPerMinute
    /\ t.totalTime = t.timeLeft
    /\ t.currentSession = 1
    /\ t.sessionsToday = 0
    /\ t.totalFocusTime = 0

\* the history an event of the timer leaves; op names a reset or a settings
\* update, the other events leave "none"
Recorded(run, at, op) ==
    /\ freshRun' = run
    /\ startedAt' = at
    /\ lastOp' = op
    /\ UNCHANGED <<lastInput, sw, pageOpen, ambient>>

History(run, at) == Recorded(run, at, "none")

-----------------------------------------------------------------------------
(* Specification *)

Init ==
    /\ build \in Builds
    /\ today = 1
    /\ \E st \in InitialStores(build, today) :
          LET t == loadSettings(constructed(build, st, today))
          IN  /\ settings = t.settings
              /\ currentMode = t.currentMode
              /\ timeLeft = t.timeLeft
              /\ totalTime = t.totalTime
              /\ isRunning = t.isRunning
              /\ interval = t.interval
              /\ leaked = t.leaked
              /\ autoStart = t.autoStart
              /\ currentSession = t.currentSession
              /\ sessionsToday = t.sessionsToday
              /\ totalFocusTime = t.totalFocusTime
              /\ streak = t.streak
              /\ completedCycles = t.completedCycles
              /\ store = t.store
              /\ clock = t.clock
    /\ focusDone = 0
    /\ lastCompleted = "none"
    /\ freshRun = NoRun
    /\ startedAt = {}
    /\ lastOp = "none"
    /\ lastInput = NoInput
    /\ sw = NoWorker
    /\ pageOpen = TRUE
    /\ ambient = NoAmbient

\* the start button or the Space key
ToggleTimer ==
    /\ leaked < MaxLeaked
    /\ Becomes(toggleTimer(Self))
    /\ IF isRunning
       THEN History(NoRun, startedAt)
       ELSE History(IF Fresh(Self) THEN [on |-> TRUE, n |-> 0, f |-> settings.focus]
                    ELSE NoRun,
                    {timeLeft})

\* Ctrl+R / Cmd+R
ResetTimer ==
    /\ Becomes(resetTimer(Self))
    /\ Recorded(NoRun, {}, IF isRunning THEN "resetRunning" ELSE "resetPaused")

ModeTabClick ==
    \E mode \in Modes :
        /\ Becomes(modeTabClicked(Self, mode))
        /\ History(NoRun, {})

\* a change event of one of the three settings fields: the handler reads all
\* three, and the two fields that were not edited still show what they showed
\* (the current setting, or a rejected value that is rejected again)
UpdateSettings ==
    \/ \E f \in FocusInputs(build) :
          /\ Becomes(updateSettings(Self, f, settings.short, settings.long))
          /\ Recorded(NoRun, {}, IF isRunning THEN "none" ELSE "updatePaused")
    \/ \E s \in ShortInputs(build) :
          /\ Becomes(updateSettings(Self, settings.focus, s, settings.long))
          /\ Recorded(NoRun, {}, IF isRunning THEN "none" ELSE "updatePaused")
    \/ \E l \in LongInputs(build) :
          /\ Becomes(updateSettings(Self, settings.focus, settings.short, l))
          /\ Recorded(NoRun, {}, IF isRunning THEN "none" ELSE "updatePaused")

VisibilityChange ==
    \E hidden \in BOOLEAN :
        /\ Becomes(visibilityChanged(Self, hidden))
        /\ History(NoRun, {})

\* the next tick takes timeLeft to 0 and so runs completeTimer
Completing == timeLeft - 1 <= 0

\* that completion would count a session / a cycle (part_002 counts a cycle on
\* the long-break path and on every break completion)
CountsSession == Completing /\ currentMode = "focus"
CountsCycle ==
    /\ Completing
    /\ build = "part002"
    /\ currentMode = "focus" => currentSession = SessionsPerCycle

\* a live interval fires; a pending auto-start timeout (2000 ms) lets at most
\* one 1000 ms tick of a later interval pass before it fires itself
Tick ==
    /\ interval = "live" \/ leaked > 0
    /\ autoStart # "due"
    /\ leaked < MaxLeaked
    /\ CountsSession => sessionsToday < MaxSessions
    /\ CountsCycle => completedCycles < MaxCycles
    /\ Becomes([tick(Self) EXCEPT !.autoStart =
                    IF autoStart = "armed" THEN "due" ELSE @])
    /\ History(IF freshRun.on /\ freshRun.n < freshRun.f * SecondsPerMinute
               THEN [freshRun EXCEPT !.n = @ + 1] ELSE NoRun,
               {})

\* the auto-start timeout fires
AutoStartFire ==
    /\ autoStart # "none"
    /\ leaked < MaxLeaked
    /\ Becomes(autoStartFired(Self))
    /\ History(NoRun, {})

Next ==
    \/ ToggleTimer
    \/ ResetTimer
    \/ ModeTabClick
    \/ UpdateSettings
    \/ VisibilityChange
    \/ Tick
    \/ AutoStartFire

Spec == Init /\ [][Next]_vars

-----------------------------------------------------------------------------
(* Steps that ran completeTimer: every handler starts with lastCompleted     *)
(* "none", and completeTimer records the mode it completed                   *)

FocusCompletes == lastCompleted' = "focus"
BreakCompletes == lastCompleted' \in {"short", "long"}

-----------------------------------------------------------------------------
(* Claims *)

\* C1: completing a Focus phase with currentSession < 4 switches to the short
\* break and adds exactly 1 to currentSession; with currentSession = 4 it
\* switches to the long break and sets currentSession to 1.
C1_FocusCompletionAdvances ==
    [][FocusCompletes =>
          /\ currentSession < SessionsPerCycle =>
                currentMode' = "short" /\ currentSession' = currentSession + 1
          /\ currentSession = SessionsPerCycle =>
                currentMode' = "long" /\ currentSession' = 1]_vars

\* the fourth Focus completion has just led to the long break
C1_Witness ==
    /\ lastCompleted = "focus"
    /\ focusDone = SessionsPerCycle
    /\ currentMode = "long"
    /\ currentSession = 1

\* C2: completing a break (short or long) switches to focus, reloads timeLeft
\* and totalTime from settings.focus * 60 and leaves currentSession,
\* sessionsToday and totalFocusTime unchanged.
C2_BreakCompletionToFocus ==
    [][BreakCompletes =>
          /\ currentMode' = "focus"
          /\ timeLeft' = settings'.focus * SecondsPerMinute
          /\ totalTime' = settings'.focus * SecondsPerMinute
          /\ UNCHANGED <<currentSession, sessionsToday, totalFocusTime>>]_vars

\* a long break (entered with other settings than focus has) has just completed
C2_Witness ==
    /\ lastCompleted = "long"
    /\ currentMode = "focus"
    /\ sessionsToday = SessionsPerCycle
    /\ currentSession = 1
    /\ timeLeft = settings.focus * SecondsPerMinute

\* C3: every Focus completion adds exactly 1 to sessionsToday and exactly
\* settings.focus to totalFocusTime; no other step (start, pause, reset,
\* switchMode, updateSettings, a tick that completes nothing, a break
\* completion) changes either counter.
C3_CountersMoveOnlyOnFocusCompletion ==
    [][IF FocusCompletes
       THEN /\ sessionsToday' = sessionsToday + 1
            /\ totalFocusTime' = totalFocusTime + settings.focus
       ELSE UNCHANGED <<sessionsToday, totalFocusTime>>]_vars

\* two Focus phases completed, one under a focus setting of 1 and one of 2
C3_Witness ==
    /\ lastCompleted = "focus"
    /\ sessionsToday = 2
    /\ totalFocusTime = 3

\* C4: from the start of a fresh Focus phase (timeLeft = f * 60, session 1,
\* counters 0) with nothing but ticks: no completion before the (f * 60)-th
\* tick, and the (f * 60)-th tick completes the phase, leaving the short
\* break, sessionsToday = 1, totalFocusTime = f and currentSession = 2.
C4_FreshFocusCompletesOnLastTick ==
    freshRun.on =>
        \/ /\ freshRun.n < freshRun.f * SecondsPerMinute
           /\ lastCompleted = "none"
           /\ currentMode = "focus"
           /\ timeLeft = freshRun.f * SecondsPerMinute - freshRun.n
           /\ sessionsToday = 0
           /\ currentSession = 1
        \/ /\ freshRun.n = freshRun.f * SecondsPerMinute
           /\ lastCompleted = "focus"
           /\ currentMode = "short"
           /\ sessionsToday = 1
           /\ totalFocusTime = freshRun.f
           /\ currentSession = 2

\* the (f * 60)-th tick of such a run has fired
C4_Witness ==
    /\ freshRun.on
    /\ freshRun.n = freshRun.f * SecondsPerMinute

\* C5: the n-th Focus completion since construction leads to the long break
\* if and only if n is a multiple of 4, whatever pauses, resets, mode switches
\* and settings updates come between the completions.
C5_LongBreakEveryFourth ==
    [][FocusCompletes =>
          /\ focusDone' = focusDone + 1
          /\ currentMode' = "long" <=> focusDone' % SessionsPerCycle = 0
          /\ currentMode' = "short" <=> focusDone' % SessionsPerCycle # 0]_vars

\* the eighth Focus completion has led to the second long break
C5_Witness ==
    /\ lastCompleted = "focus"
    /\ focusDone = 2 * SessionsPerCycle
    /\ currentMode = "long"

\* C6: 0 <= timeLeft <= totalTime in every state between events, settings
\* updates of a running timer included.
C6_TimeLeftWithinTotal ==
    0 <= timeLeft /\ timeLeft <= totalTime

\* the settings of the current mode were changed while the timer ran, and the
\* timer was then reset: totalTime is no longer settings[currentMode] * 60
C6_Witness ==
    /\ ~isRunning
    /\ timeLeft = totalTime
    /\ totalTime < settings[currentMode] * SecondsPerMinute

\* C7: currentSession is one of 1, 2, 3, 4 in every reachable state.
C7_SessionInRange ==
    currentSession \in 1..SessionsPerCycle

\* the cycle has wrapped once and reached its fourth session again
C7_Witness ==
    /\ currentSession = SessionsPerCycle
    /\ focusDone = 2 * SessionsPerCycle - 1

\* C8: at most one interval is live, and one is live exactly when isRunning.
C8_OneTickSourceIffRunning ==
    /\ leaked = 0
    /\ interval = "live" <=> isRunning

\* part_002: the user started the break inside the 2 s window, one tick has
\* passed and the auto-start timeout is about to fire on the running timer
C8_Witness ==
    /\ build = "part002"
    /\ autoStart = "due"
    /\ isRunning
    /\ currentMode \in {"short", "long"}

\* C9: while isRunning is false no interval is live, so timeLeft is not
\* decremented; a start followed at once by a pause leaves timeLeft as it was
\* before the start.
C9_PauseCancelsTick ==
    /\ ~isRunning => interval # "live" /\ leaked = 0
    /\ ~isRunning /\ startedAt # {} => startedAt = {timeLeft}

\* started and paused at once, in the middle of a phase
C9_Witness ==
    /\ ~isRunning
    /\ startedAt = {timeLeft}
    /\ timeLeft < totalTime

\* C10: a step from a running timer changes the mode only by running
\* completeTimer, and a click on a mode tab while the timer runs changes
\* none of mode, timeLeft and totalTime.
C10_NoModeChangeWhileRunning ==
    [][isRunning =>
          /\ currentMode' # currentMode => lastCompleted' # "none"
          /\ ModeTabClick => UNCHANGED <<currentMode, timeLeft, totalTime>>]_vars

\* app.js: a completion has moved a running timer on to the break and
\* started it
C10_Witness ==
    /\ build = "app"
    /\ isRunning
    /\ lastCompleted = "focus"
    /\ currentMode = "short"

-----------------------------------------------------------------------------
(* The settings alone: startup from any persisted settings, and settings     *)
(* events that read any three integers from the fields                       *)

\* values around the ends of the ranges of both builds (a field that is
\* missing from the persisted object, or not a number, compares false like 0)
AnyFocus == {0, 1, 5, 60, 61}
AnyShort == {0, 1, 15, 30, 31}
AnyLong == {0, 1, 5, 30, 60, 61}

\* localStorage's timerSettings: nothing, or any object
PersistedSettings ==
    {[saved |-> FALSE, focus |-> 0, short |-> 0, long |-> 0]}
    \cup {[saved |-> TRUE, focus |-> f, short |-> sh, long |-> l] :
             f \in AnyFocus, sh \in AnyShort, l \in AnyLong}

\* the fields of a newly constructed object
Starts(t) ==
    /\ settings = t.settings
    /\ currentMode = t.currentMode
    /\ timeLeft = t.timeLeft
    /\ totalTime = t.totalTime
    /\ isRunning = t.isRunning
    /\ interval = t.interval
    /\ leaked = t.leaked
    /\ autoStart = t.autoStart
    /\ currentSession = t.currentSession
    /\ sessionsToday = t.sessionsToday
    /\ totalFocusTime = t.totalFocusTime
    /\ streak = t.streak
    /\ completedCycles = t.completedCycles
    /\ store = t.store
    /\ focusDone = t.focusDone
    /\ lastCompleted = t.lastCompleted
    /\ clock = t.clock

\* the page is opened: constructor, then loadSettings
InitSettings ==
    /\ build \in Builds
    /\ today = 1
    /\ \E ts \in PersistedSettings :
          /\ Starts(loadSettings(constructed(build,
                    [timerSettings |-> ts, progress |-> NoProgress,
                     lastSessionDate |-> {}], today)))
          /\ lastInput = [from |-> "store", focus |-> ts.focus, short |-> ts.short,
                          long |-> ts.long]
    /\ freshRun = NoRun
    /\ startedAt = {}
    /\ lastOp = "none"
    /\ sw = NoWorker
    /\ pageOpen = TRUE
    /\ ambient = NoAmbient

\* the page is opened again, over whatever timerSettings then holds
Startup ==
    \E ts \in PersistedSettings :
        /\ Becomes(loadSettings(constructed(build,
                    [store EXCEPT !.timerSettings = ts], today)))
        /\ lastInput' = [from |-> "store", focus |-> ts.focus, short |-> ts.short,
                         long |-> ts.long]
        /\ UNCHANGED <<freshRun, startedAt, lastOp, sw, pageOpen, ambient>>

\* a change event whose handler reads any three integers from the fields
UpdateSettingsAny ==
    \E f \in AnyFocus, sh \in AnyShort, l \in AnyLong :
        /\ Becomes(updateSettings(Self, f, sh, l))
        /\ lastInput' = [from |-> "fields", focus |-> f, short |-> sh, long |-> l]
        /\ UNCHANGED <<freshRun, startedAt, lastOp, sw, pageOpen, ambient>>

NextSettings ==
    \/ Startup
    \/ UpdateSettingsAny

SpecSettings == InitSettings /\ [][NextSettings]_vars

\* C13: after any startup loads and settings updates, focus is in 1..60, short
\* in 1..30 and long in 1..60; a field whose input is outside its range keeps
\* its previous value (at startup: the constructor's default, when a settings
\* object was persisted).
C13_SettingsStayInRange ==
    /\ [](/\ settings.focus \in 1..60
          /\ settings.short \in 1..30
          /\ settings.long \in 1..60)
    /\ [][/\ lastInput'.focus \notin 1..60 =>
                settings'.focus = IF lastInput'.from = "fields" THEN settings.focus
                                  ELSE DefaultFocus
          /\ lastInput'.short \notin 1..30 =>
                settings'.short = IF lastInput'.from = "fields" THEN settings.short
                                  ELSE DefaultShort
          /\ lastInput'.long \notin 1..60 =>
                settings'.long = IF lastInput'.from = "fields" THEN settings.long
                                 ELSE DefaultLong]_vars

\* an update that took an end of the range for one field and kept the two
\* others against inputs just outside their ranges
C13_Witness ==
    /\ lastInput = [from |-> "fields", focus |-> 61, short |-> 30, long |-> 0]
    /\ settings = [focus |-> 1, short |-> 30, long |-> 60]

\* C11: reset, from a running or a paused timer, leaves the timer paused with
\* timeLeft = totalTime, and changes neither the mode, totalTime, the session
\* in the cycle, the sessions of the day nor the focus minutes of the day.
C11_ResetFrame ==
    [][ResetTimer =>
          /\ isRunning' = FALSE
          /\ timeLeft' = totalTime'
          /\ UNCHANGED <<currentMode, totalTime, currentSession, sessionsToday,
                         totalFocusTime>>]_vars

\* a reset of a running timer, in the middle of a break after a counted session
C11_Witness ==
    /\ lastOp = "resetRunning"
    /\ ~isRunning
    /\ interval = "cleared"
    /\ currentMode = "short"
    /\ timeLeft = totalTime
    /\ sessionsToday = 1
    /\ currentSession = 2

\* C12: a settings update applied while the timer is paused leaves
\* totalTime = settings[currentMode] * 60 and timeLeft = totalTime.
C12_UpdateWhilePausedRefreshes ==
    [][(UpdateSettings /\ ~isRunning) =>
          /\ totalTime' = settings'[currentMode'] * SecondsPerMinute
          /\ timeLeft' = totalTime']_vars

\* a paused update that changed the length of the phase on display
C12_Witness ==
    /\ lastOp = "updatePaused"
    /\ ~isRunning
    /\ currentMode = "focus"
    /\ settings.focus = 2
    /\ totalTime = 2 * SecondsPerMinute
    /\ timeLeft = totalTime

-----------------------------------------------------------------------------
(* The service worker, src/unnamed/part_000.                                 *)
(*                                                                           *)
(* sw is the worker of one generation with the origin's cache storage:       *)
(*   state       "installing" | "installed" | "activated" | "redundant"      *)
(*   waitUntil   how the promise given to the install event settled          *)
(*   skipWaiting self.skipWaiting() was called                               *)
(*   coreCached  history: how cache.addAll(CORE_FILES) ended                 *)
(*   audioFailed history: the audio files the install did not cache          *)
(*   caches      the names of the caches that exist (caches.keys())          *)
(*   entries     the <<cache name, pathname>> pairs that hold a response     *)
(*   deleted     history: the caches the activate listener deleted           *)
(*   rq          the fetch event being handled, one at a time                *)
(* A URL is the sequence of its parts: './css/main.css' is                   *)
(* <<".", "/", "css", "/", "main.css">>, so that two URLs are equal exactly  *)
(* when their texts are.                                                     *)

CACHE_NAME == "focus-timer-v1.0.2"
STATIC_CACHE == "focus-static-v1.0.2"
AUDIO_CACHE == "focus-audio-v1.0.2"

\* caches an earlier generation of the worker left behind
OLD_STATIC == "focus-static-v1.0.1"
OLD_AUDIO == "focus-audio-v1.0.1"

CORE_FILES ==
    { <<".", "/">>,
      <<".", "/", "index.html">>,
      <<".", "/", "css", "/", "main.css">>,
      <<".", "/", "js", "/", "app.js">>,
      <<".", "/", "manifest.json">> }

AUDIO_FILES ==
    { <<".", "/", "audio", "/", name>> :
        name \in {"white.mp3", "rain.mp3", "lofi.mp3", "lofi_study.mp3",
                  "lofi_movie.mp3", "forest.mp3", "brown.mp3", "beethoven.mp3",
                  "bar.mp3", "75hz.mp3"} }

\* the pathname a relative URL resolves to, the worker's script being served
\* from the root of the origin
Pathname(rel) ==
    IF rel # <<>> /\ Head(rel) = "." THEN Tail(rel) ELSE rel

\* url.pathname.includes('/audio/')
IncludesAudio(path) ==
    \E i \in 1..(Len(path) - 2) :
        path[i] = "/" /\ path[i + 1] = "audio" /\ path[i + 2] = "/"

\* (mutant) the listener handles every method
DispatchAnyMethod(method, origin, path) ==
    IF origin # "same" THEN "none"
    ELSE IF IncludesAudio(path) THEN "audio"
    ELSE IF path \in CORE_FILES \/ path = <<"/">> THEN "core"
    ELSE "netfirst"

\* the fetch listener's tests, in its order; "none": the listener returns
\* without respondWith
Dispatch(method, origin, path) ==
    IF method # "GET" \/ origin # "same" THEN "none"
    ELSE IF IncludesAudio(path) THEN "audio"
    ELSE IF path \in CORE_FILES \/ path = <<"/">> THEN "core"
    ELSE "netfirst"

\* no fetch event in hand
NoRequest ==
    [path |-> <<>>, method |-> "GET", origin |-> "same", handler |-> "none",
     pc |-> "idle", held |-> {}, opened |-> "none", match |-> "none",
     net |-> "idle", put |-> "none", fetches |-> 0, response |-> "none"]

\* the caches that hold a response for the path
Holding(w, path) == {n \in w.caches : <<n, path>> \in w.entries}

\* cache.put(request, response.clone()), never awaited: a rejection of it is
\* handled nowhere
Put(w, name, ok) ==
    IF ok
    THEN [w EXCEPT !.entries = @ \cup {<<name, w.rq.path>>}, !.rq.put = "ok"]
    ELSE [w EXCEPT !.rq.put = "failed"]

\* caches.open(name), which succeeded: it creates the cache when there is none
Opened(w, name) ==
    [w EXCEPT !.caches = @ \cup {name}, !.rq.opened = "ok"]

\* the install listener: coreOk - cache.addAll(CORE_FILES) fulfils;
\* audioOpenOk - caches.open(AUDIO_CACHE) fulfils; audioFailed - the audio
\* files whose cache.add rejects. The chain given to waitUntil is
\* Promise.all([...]).then(skipWaiting).catch(log)
installListener(w, coreOk, audioOpenOk, audioFailed) ==
    LET static == IF coreOk THEN "fulfilled" ELSE "rejected"
        \* every cache.add has its own catch and allSettled never rejects; the
        \* open before them has no catch
        audio == IF audioOpenOk THEN "fulfilled" ELSE "rejected"
        all == IF static = "fulfilled" /\ audio = "fulfilled"
               THEN "fulfilled" ELSE "rejected"
        \* .then(() => self.skipWaiting()) runs on fulfilment only
        skipped == all = "fulfilled"
        \* .catch(error => { console.error(...) }) turns a rejection into a
        \* fulfilment with undefined
        given == "fulfilled"
    IN  [w EXCEPT
            !.caches = @ \cup {STATIC_CACHE}
                         \cup (IF audioOpenOk THEN {AUDIO_CACHE} ELSE {}),
            !.entries = @ \cup (IF coreOk
                                THEN {<<STATIC_CACHE, Pathname(f)>> : f \in CORE_FILES}
                                ELSE {})
                          \cup (IF audioOpenOk
                                THEN {<<AUDIO_CACHE, Pathname(f)>> :
                                         f \in AUDIO_FILES \ audioFailed}
                                ELSE {}),
            !.coreCached = IF coreOk THEN "ok" ELSE "failed",
            !.audioFailed = IF audioOpenOk THEN audioFailed ELSE AUDIO_FILES,
            !.skipWaiting = skipped,
            !.waitUntil = IF given = "fulfilled" THEN "resolved" ELSE "rejected",
            \* the browser: a rejected waitUntil promise discards the worker
            !.state = IF given = "fulfilled" THEN "installed" ELSE "redundant"]

\* (mutant) activation keeps the static cache only
activateListenerStaticOnly(w) ==
    LET gone == {n \in w.caches : n # STATIC_CACHE}
    IN  [w EXCEPT !.caches = @ \ gone,
                  !.entries = {e \in @ : e[1] \notin gone},
                  !.deleted = gone,
                  !.state = "activated"]

\* the activate listener: caches.delete for every name that is neither
\* STATIC_CACHE nor AUDIO_CACHE
activateListener(w) ==
    LET gone == {n \in w.caches : n # STATIC_CACHE /\ n # AUDIO_CACHE}
    IN  [w EXCEPT !.caches = @ \ gone,
                  !.entries = {e \in @ : e[1] \notin gone},
                  !.deleted = gone,
                  !.state = "activated"]

\* the fetch listener, up to the first await of the handler it chose
fetchListener(w, method, origin, path) ==
    LET h == Dispatch(method, origin, path)
        r == [NoRequest EXCEPT !.path = path, !.method = method, !.origin = origin,
                               !.handler = h, !.held = Holding(w, path)]
    IN  [w EXCEPT !.rq =
            CASE h = "none"  -> [r EXCEPT !.pc = "done", !.response = "default"]
              [] h = "audio" -> [r EXCEPT !.pc = "matching"]
              [] h = "core"  -> [r EXCEPT !.pc = "opening"]
              [] OTHER       -> [r EXCEPT !.pc = "fetching", !.net = "pending",
                                          !.fetches = 1]]

\* (mutant) a cached audio response is revalidated over the network
handleAudioRequest_matchRevalidates(w, matchOk) ==
    IF ~matchOk
    THEN [w EXCEPT !.rq.match = "failed", !.rq.response = "404", !.rq.pc = "done"]
    ELSE IF Holding(w, w.rq.path) # {}
    THEN [w EXCEPT !.rq.match = "hit", !.rq.response = "cached",
                   !.rq.net = "pending", !.rq.fetches = @ + 1, !.rq.pc = "fetching"]
    ELSE [w EXCEPT !.rq.match = "miss", !.rq.net = "pending",
                   !.rq.fetches = @ + 1, !.rq.pc = "fetching"]

\* handleAudioRequest, `await caches.match(request)` settles
handleAudioRequest_match(w, matchOk) ==
    IF ~matchOk
    THEN [w EXCEPT !.rq.match = "failed", !.rq.response = "404", !.rq.pc = "done"]
    ELSE IF Holding(w, w.rq.path) # {}
    THEN [w EXCEPT !.rq.match = "hit", !.rq.response = "cached", !.rq.pc = "done"]
    ELSE [w EXCEPT !.rq.match = "miss", !.rq.net = "pending",
                   !.rq.fetches = @ + 1, !.rq.pc = "fetching"]

\* handleAudioRequest, `await fetch(request)` settles
handleAudioRequest_network(w, net, openOk, putOk) ==
    LET r == [w EXCEPT !.rq.net = net, !.rq.pc = "done"]
    IN  IF net = "failed" THEN [r EXCEPT !.rq.response = "404"]
        ELSE IF net = "notok" THEN [r EXCEPT !.rq.response = "network"]
        ELSE IF ~openOk THEN [r EXCEPT !.rq.opened = "failed", !.rq.response = "404"]
        ELSE [Put(Opened(r, AUDIO_CACHE), AUDIO_CACHE, putOk)
                 EXCEPT !.rq.response = "network"]

\* handleCoreFileRequest, `await caches.open(STATIC_CACHE)` settles (the
\* statement stands before the try)
handleCoreFileRequest_open(w, openOk) ==
    IF ~openOk
    THEN [w EXCEPT !.rq.opened = "failed", !.rq.response = "rejected",
                   !.rq.pc = "done"]
    ELSE [Opened(w, STATIC_CACHE) EXCEPT !.rq.pc = "matching"]

\* handleCoreFileRequest, `await cache.match(request)` settles; the fetch is
\* started and, on a hit, the cached response returned
handleCoreFileRequest_match(w, matchOk) ==
    IF ~matchOk
    THEN [w EXCEPT !.rq.match = "failed", !.rq.response = "offline",
                   !.rq.pc = "done"]
    ELSE IF <<STATIC_CACHE, w.rq.path>> \in w.entries
    THEN [w EXCEPT !.rq.match = "hit", !.rq.net = "pending", !.rq.fetches = @ + 1,
                   !.rq.response = "cached", !.rq.pc = "revalidating"]
    ELSE [w EXCEPT !.rq.match = "miss", !.rq.net = "pending", !.rq.fetches = @ + 1,
                   !.rq.pc = "fetching"]

\* (mutant) a fresh network response replaces the one already returned
handleCoreFileRequest_networkWins(w, net, putOk) ==
    LET r == [w EXCEPT !.rq.net = net, !.rq.pc = "done",
                       !.rq.response = IF net = "failed"
                                       THEN (IF @ = "cached" THEN @ ELSE "offline")
                                       ELSE "network"]
    IN  IF net = "ok" THEN Put(r, STATIC_CACHE, putOk) ELSE r

\* handleCoreFileRequest, the fetch settles: .then(put when ok).catch(null),
\* and the response when none was returned yet
handleCoreFileRequest_network(w, net, putOk) ==
    LET r == [w EXCEPT !.rq.net = net, !.rq.pc = "done",
                       !.rq.response = IF @ = "cached" THEN @
                                       ELSE IF net = "failed" THEN "offline"
                                       ELSE "network"]
    IN  IF net = "ok" THEN Put(r, STATIC_CACHE, putOk) ELSE r

\* handleNetworkFirstRequest's catch block: caches.match, else the 503
networkFirstFallback(w, matchOk) ==
    IF ~matchOk
    THEN [w EXCEPT !.rq.match = "failed", !.rq.response = "rejected"]
    ELSE IF Holding(w, w.rq.path) # {}
    THEN [w EXCEPT !.rq.match = "hit", !.rq.response = "cached"]
    ELSE [w EXCEPT !.rq.match = "miss", !.rq.response = "503"]

\* handleNetworkFirstRequest, `await fetch(request)` settles
handleNetworkFirstRequest_network(w, net, openOk, putOk, matchOk) ==
    LET r == [w EXCEPT !.rq.net = net, !.rq.pc = "done"]
    IN  IF net = "failed" THEN networkFirstFallback(r, matchOk)
        ELSE IF net = "notok" THEN [r EXCEPT !.rq.response = "network"]
        ELSE IF ~openOk
        THEN networkFirstFallback([r EXCEPT !.rq.opened = "failed"], matchOk)
        ELSE [Put(Opened(r, STATIC_CACHE), STATIC_CACHE, putOk)
                 EXCEPT !.rq.response = "network"]

-----------------------------------------------------------------------------
(* The worker's specification *)

\* everything but the worker
pageVars == <<build, settings, currentMode, timeLeft, totalTime, isRunning,
              interval, leaked, autoStart, currentSession, sessionsToday,
              totalFocusTime, streak, completedCycles, store, today, focusDone,
              lastCompleted, freshRun, startedAt, lastOp, lastInput, clock,
              pageOpen, ambient>>

\* what the origin's cache storage holds when the worker is installed: nothing,
\* or the caches of the generation before
InitialCacheStorage ==
    { [caches |-> {}, entries |-> {}],
      [caches |-> {OLD_STATIC},
       entries |-> {<<OLD_STATIC, Pathname(f)>> : f \in CORE_FILES}],
      [caches |-> {OLD_STATIC, OLD_AUDIO, CACHE_NAME},
       entries |-> {<<OLD_STATIC, Pathname(f)>> : f \in CORE_FILES}
                   \cup {<<OLD_AUDIO, <<"/", "audio", "/", "rain.mp3">>>>}] }

\* the audio files that fail to be cached at install: none, one, all
AudioFailures == { {}, {<<".", "/", "audio", "/", "rain.mp3">>}, AUDIO_FILES }

\* the requests of the page
RequestMethods == {"GET", "POST"}
RequestOrigins == {"same", "cross"}
RequestPaths ==
    { <<"/">>,
      <<"/", "index.html">>,
      <<"/", "css", "/", "main.css">>,
      <<"/", "js", "/", "app.js">>,
      <<"/", "manifest.json">>,
      <<"/", "audio", "/", "rain.mp3">>,
      <<"/", "icon-192.png">> }

NetOutcomes == {"ok", "notok", "failed"}

InitWorker ==
    /\ build = "app"
    /\ today = 1
    /\ \E st \in InitialStores(build, today) :
          Starts(loadSettings(constructed(build, st, today)))
    /\ freshRun = NoRun
    /\ startedAt = {}
    /\ lastOp = "none"
    /\ lastInput = NoInput
    /\ pageOpen = TRUE
    /\ ambient = NoAmbient
    /\ \E c \in InitialCacheStorage :
          sw = [state |-> "installing", waitUntil |-> "none", skipWaiting |-> FALSE,
                coreCached |-> "none", audioFailed |-> {}, caches |-> c.caches, entries |-> c.entries,
                deleted |-> {}, rq |-> NoRequest]

InstallEvent ==
    /\ sw.state = "installing"
    /\ \E coreOk \in BOOLEAN, audioOpenOk \in BOOLEAN, audioFailed \in AudioFailures :
          sw' = installListener(sw, coreOk, audioOpenOk, audioFailed)
    /\ UNCHANGED pageVars

\* the installed worker is activated: at once after skipWaiting, else when no
\* page of the generation before is left
ActivateEvent ==
    /\ sw.state = "installed"
    /\ sw' = activateListener(sw)
    /\ UNCHANGED pageVars

\* the active worker gets the next request of a page
FetchEvent ==
    /\ sw.state = "activated"
    /\ sw.rq.pc \in {"idle", "done"}
    /\ \E method \in RequestMethods, origin \in RequestOrigins, path \in RequestPaths :
          sw' = fetchListener(sw, method, origin, path)
    /\ UNCHANGED pageVars

AudioMatch ==
    /\ sw.rq.handler = "audio" /\ sw.rq.pc = "matching"
    /\ \E matchOk \in BOOLEAN : sw' = handleAudioRequest_match(sw, matchOk)
    /\ UNCHANGED pageVars

AudioNetwork ==
    /\ sw.rq.handler = "audio" /\ sw.rq.pc = "fetching"
    /\ \E net \in NetOutcomes, openOk \in BOOLEAN, putOk \in BOOLEAN :
          sw' = handleAudioRequest_network(sw, net, openOk, putOk)
    /\ UNCHANGED pageVars

CoreOpen ==
    /\ sw.rq.handler = "core" /\ sw.rq.pc = "opening"
    /\ \E openOk \in BOOLEAN : sw' = handleCoreFileRequest_open(sw, openOk)
    /\ UNCHANGED pageVars

CoreMatch ==
    /\ sw.rq.handler = "core" /\ sw.rq.pc = "matching"
    /\ \E matchOk \in BOOLEAN : sw' = handleCoreFileRequest_match(sw, matchOk)
    /\ UNCHANGED pageVars

CoreNetwork ==
    /\ sw.rq.handler = "core" /\ sw.rq.pc \in {"fetching", "revalidating"}
    /\ \E net \in NetOutcomes, putOk \in BOOLEAN :
          sw' = handleCoreFileRequest_network(sw, net, putOk)
    /\ UNCHANGED pageVars

NetworkFirstNetwork ==
    /\ sw.rq.handler = "netfirst" /\ sw.rq.pc = "fetching"
    /\ \E net \in NetOutcomes, openOk \in BOOLEAN, putOk \in BOOLEAN,
          matchOk \in BOOLEAN :
          sw' = handleNetworkFirstRequest_network(sw, net, openOk, putOk, matchOk)
    /\ UNCHANGED pageVars

NextWorker ==
    \/ InstallEvent
    \/ ActivateEvent
    \/ FetchEvent
    \/ AudioMatch
    \/ AudioNetwork
    \/ CoreOpen
    \/ CoreMatch
    \/ CoreNetwork
    \/ NetworkFirstNetwork

SpecWorker == InitWorker /\ [][NextWorker]_vars

-----------------------------------------------------------------------------
(* Claims about the service worker *)

\* C14: when caching a core file fails during install, the promise given to
\* the install event rejects, the worker of the new generation does not become
\* installed or active, and the caches of the generation before stay.
C14_FailedCoreCachingFailsInstall ==
    sw.coreCached = "failed" =>
        /\ sw.waitUntil = "rejected"
        /\ sw.state \notin {"installed", "activated"}
        /\ sw.deleted = {}

\* C15: a same-origin GET for '/', /index.html, /css/main.css, /js/app.js or
\* /manifest.json goes to the stale-while-revalidate handler, one whose path
\* contains /audio/ to the cache-first handler, every other one to the
\* network-first handler.
C15_DispatchByResource ==
    LET r == sw.rq
        shell == { <<"/">>, <<"/", "index.html">>, <<"/", "css", "/", "main.css">>,
                   <<"/", "js", "/", "app.js">>, <<"/", "manifest.json">> }
    IN  (r.pc # "idle" /\ r.method = "GET" /\ r.origin = "same") =>
            r.handler = IF r.path \in shell THEN "core"
                        ELSE IF IncludesAudio(r.path) THEN "audio"
                        ELSE "netfirst"

\* C16: whatever the network and the cache storage do (open, match or put
\* failing), no handler rejects and no rejection is left unhandled.
C16_HandlersNeverReject ==
    /\ sw.rq.response # "rejected"
    /\ sw.rq.put # "failed"

\* C17: a fetch for an audio URL that a cache holds a response for issues no
\* network request and returns the cached response.
C17_CachedAudioStaysOffNetwork ==
    LET r == sw.rq
    IN  (r.handler = "audio" /\ r.held # {} /\ r.match \notin {"none", "failed"}) =>
            /\ r.response = "cached"
            /\ r.fetches = 0
            /\ r.net = "idle"

\* an audio request answered from the cache the install filled
C17_Witness ==
    /\ sw.rq.handler = "audio"
    /\ sw.rq.held = {AUDIO_CACHE}
    /\ sw.rq.pc = "done"
    /\ sw.rq.response = "cached"
    /\ sw.rq.fetches = 0

\* C18: for a request the static cache holds a copy of, the stale-while-
\* revalidate handler returns the copy while its network fetch is still
\* pending, issues exactly one fetch, and the outcome of that fetch does not
\* change the response returned.
C18_StaleWhileRevalidate ==
    /\ []((/\ sw.rq.handler = "core"
           /\ STATIC_CACHE \in sw.rq.held
           /\ sw.rq.match \notin {"none", "failed"}) =>
              (sw.rq.response = "cached" /\ sw.rq.fetches = 1))
    /\ [][(sw'.rq.handler = "core" /\ sw'.rq.response = "cached") =>
              IF sw.rq.pc = "matching"
              THEN sw'.rq.net = "pending"
              ELSE sw.rq.pc = "revalidating" =>
                      (sw.rq.response = "cached" /\ sw'.rq.fetches = sw.rq.fetches)]_vars

\* the copy was returned, and the revalidating fetch failed afterwards
C18_Witness ==
    /\ sw.rq.handler = "core"
    /\ STATIC_CACHE \in sw.rq.held
    /\ sw.rq.pc = "done"
    /\ sw.rq.net = "failed"
    /\ sw.rq.response = "cached"
    /\ sw.rq.fetches = 1

\* C19: activation deletes every cache whose name is neither the current
\* static nor the current audio cache name, and none whose name is one of
\* them; from {static, audio, old static} exactly the old static cache goes.
C19_ActivationDeletesOldCaches ==
    [][(sw.state = "installed" /\ sw'.state = "activated") =>
          /\ sw'.caches = sw.caches \cap {STATIC_CACHE, AUDIO_CACHE}
          /\ sw'.deleted = sw.caches \ {STATIC_CACHE, AUDIO_CACHE}
          /\ sw'.entries = {e \in sw.entries : e[1] \in {STATIC_CACHE, AUDIO_CACHE}}
       ]_vars

\* activated over the two current caches and one old static cache
C19_Witness ==
    /\ sw.state = "activated"
    /\ sw.deleted = {OLD_STATIC}
    /\ sw.caches = {STATIC_CACHE, AUDIO_CACHE}
    /\ <<STATIC_CACHE, <<"/", "index.html">>>> \in sw.entries

\* C20: the network-first handler returns the network response when the fetch
\* succeeds, storing a copy when the response is ok; when the fetch fails it
\* returns a cached copy if a cache holds one, and else a 503.
C20_NetworkFirst ==
    LET r == sw.rq
    IN  (r.handler = "netfirst" /\ r.pc = "done") =>
            /\ r.net \in {"ok", "notok"} => r.response = "network"
            /\ r.net = "ok" => r.put # "none"
            /\ (r.net = "failed" /\ r.match # "failed") =>
                   r.response = IF r.held # {} THEN "cached" ELSE "503"

\* C21: whichever audio files fail to be cached during install, an install
\* that cached all core files succeeds and calls skipWaiting.
C21_AudioFailuresNeverBlockInstall ==
    sw.coreCached = "ok" =>
        /\ sw.waitUntil = "resolved"
        /\ sw.state \in {"installed", "activated"}
        /\ sw.skipWaiting

\* C22: for a request with another method or another origin the fetch listener
\* calls no handler, the worker issues no fetch, opens no cache and writes to
\* none: the request is left to the browser.
C22_OnlySameOriginGet ==
    /\ []((sw.rq.pc # "idle" /\ (sw.rq.method # "GET" \/ sw.rq.origin # "same")) =>
             /\ sw.rq.handler = "none"
             /\ sw.rq.pc = "done"
             /\ sw.rq.response = "default"
             /\ sw.rq.fetches = 0
             /\ sw.rq.net = "idle"
             /\ sw.rq.opened = "none"
             /\ sw.rq.put = "none")
    /\ [][(sw'.rq.method # "GET" \/ sw'.rq.origin # "same") =>
             (sw'.caches = sw.caches /\ sw'.entries = sw.entries)]_vars

\* a POST to a core path and of the worker's own origin passed through
C22_Witness ==
    /\ sw.rq.method = "POST"
    /\ sw.rq.origin = "same"
    /\ sw.rq.path = <<"/">>
    /\ sw.rq.pc = "done"
    /\ sw.rq.response = "default"

-----------------------------------------------------------------------------
(* Progress over several days: the page is opened, phases run to their       *)
(* completion, the page is unloaded, hours and days pass.                    *)

\* the time zones: no clock change, or one day that lasts 25 or 23 hours
Zones ==
    { [long |-> {}, short |-> {}],
      [long |-> {2}, short |-> {}],
      [long |-> {}, short |-> {1}],
      [long |-> {}, short |-> {2}] }

\* the hours since local midnight at which events are observed: the first
\* hour, midday, and the 25th hour of a long day
HoursOf(c, day) == {0, 12} \cup (IF day \in c.long THEN {24} ELSE {})

\* the interval fires, second after second, until completeTimer has run: each
\* callback before the last only takes timeLeft down by one
phaseElapsed(t) ==
    tick([t EXCEPT !.timeLeft = IF @ > 1 THEN 1 ELSE @])

\* the beforeunload listener
beforeUnload(t) == saveSettings(saveProgress(t))

\* the page is opened for the first time: nothing is stored
InitProgress ==
    /\ build \in Builds
    /\ today = 1
    /\ \E z \in Zones : \E h \in HoursOf(z, 1) :
          Starts(loadSettings(
              [constructed(build,
                           [timerSettings |-> [saved |-> FALSE, focus |-> 0,
                                               short |-> 0, long |-> 0],
                            progress |-> NoProgress, lastSessionDate |-> {}],
                           today)
                  EXCEPT !.clock = [hour |-> h, long |-> z.long, short |-> z.short]]))
    /\ freshRun = NoRun
    /\ startedAt = {}
    /\ lastOp = "none"
    /\ lastInput = NoInput
    /\ sw = NoWorker
    /\ pageOpen = TRUE
    /\ ambient = NoAmbient

\* the history variables of the timer's specification are not kept here
NoHistory ==
    /\ freshRun' = NoRun
    /\ startedAt' = {}
    /\ UNCHANGED <<lastOp, lastInput, sw, ambient>>

\* the user starts the paused timer
Start ==
    /\ pageOpen
    /\ ~isRunning
    /\ Becomes(startTimer(Self))
    /\ NoHistory
    /\ UNCHANGED pageOpen

\* the running phase runs to its completion
PhaseElapses ==
    /\ pageOpen
    /\ isRunning
    /\ autoStart = "none"
    /\ currentMode = "focus" => sessionsToday < MaxSessionsADay
    /\ completedCycles < MaxCycles
    /\ Becomes(phaseElapsed(Self))
    /\ NoHistory
    /\ UNCHANGED pageOpen

\* the timeout of part_002's completion fires
AutoStartFires ==
    /\ pageOpen
    /\ autoStart # "none"
    /\ Becomes(autoStartFired(Self))
    /\ NoHistory
    /\ UNCHANGED pageOpen

\* the page is closed or reloaded: the listener runs and the object is gone
\* (while there is no object, its variables hold the constructor's values)
Unload ==
    /\ pageOpen
    /\ Becomes([constructed(build, beforeUnload(Self).store, today)
                    EXCEPT !.clock = clock])
    /\ pageOpen' = FALSE
    /\ NoHistory

\* the page is opened over what was stored
Open ==
    /\ ~pageOpen
    /\ store.progress.streak < MaxStreak
    /\ Becomes(loadSettings([constructed(build, store, today) EXCEPT !.clock = clock]))
    /\ pageOpen' = TRUE
    /\ NoHistory

\* hours pass, or the night
TimePasses ==
    /\ autoStart = "none"
    /\ \/ \E h \in HoursOf(clock, today) :
             /\ h > clock.hour
             /\ Becomes([Self EXCEPT !.clock.hour = h])
       \/ /\ today < MaxDay
          /\ \E h \in HoursOf(clock, today + 1) :
                Becomes([Self EXCEPT !.today = today + 1, !.clock.hour = h])
    /\ NoHistory
    /\ UNCHANGED pageOpen

NextProgress ==
    \/ Start
    \/ PhaseElapses
    \/ AutoStartFires
    \/ Unload
    \/ Open
    \/ TimePasses

SpecProgress == InitProgress /\ [][NextProgress]_vars

-----------------------------------------------------------------------------
(* Claims about the progress record *)

\* C23: the progress record saved at unload holds sessionsToday,
\* totalFocusTime and streak as they are in memory, and loading a record at
\* startup on the calendar day of its date reproduces the three values.
C23_ProgressRoundTrip ==
    /\ [][(pageOpen /\ ~pageOpen') =>
             /\ store'.progress.saved
             /\ store'.progress.date = today
             /\ store'.progress.sessions = sessionsToday
             /\ store'.progress.focusTime = totalFocusTime
             /\ store'.progress.streak = streak]_vars
    /\ [][(~pageOpen /\ pageOpen' /\ store.progress.saved
             /\ store.progress.date = today) =>
             /\ sessionsToday' = store.progress.sessions
             /\ totalFocusTime' = store.progress.focusTime
             /\ streak' = store.progress.streak]_vars

\* C24: at startup a record of yesterday with sessions > 0 and streak k gives
\* the streak k + 1; a record of two or more days ago gives 1 when today has
\* a session already and else 0; a record of yesterday without sessions does
\* not raise the streak.
C24_StreakAtStartup ==
    [][(~pageOpen /\ pageOpen' /\ store.progress.saved) =>
          LET p == store.progress
          IN  /\ (p.date = today - 1 /\ p.sessions > 0) => streak' = p.streak + 1
              /\ p.date <= today - 2 =>
                    streak' = IF sessionsToday' > 0 THEN 1 ELSE 0
              /\ (p.date = today - 1 /\ p.sessions = 0) => streak' <= p.streak]_vars

\* C25: after a completion (Focus or break) the persisted progress record has
\* the current sessionsToday, totalFocusTime and streak, the streak being the
\* one recomputed for that completion.
C25_RecordEqualsMemoryAfterCompletion ==
    [][(FocusCompletes \/ BreakCompletes) =>
          /\ store'.progress.saved
          /\ store'.progress.sessions = sessionsToday'
          /\ store'.progress.focusTime = totalFocusTime'
          /\ store'.progress.streak = streak']_vars

\* C26: completedCycles increases only on the long-break path: completing a
\* short break leaves it unchanged, and it never exceeds the number of full
\* cycles of four Focus phases completed.
C26_CyclesCountLongBreaksOnly ==
    /\ [][lastCompleted' = "short" => completedCycles' = completedCycles]_vars
    /\ [](completedCycles * SessionsPerCycle <= focusDone)

-----------------------------------------------------------------------------
(***************************************************************************)
(* Ambient audio (src/js/app.js)                                           *)
(*                                                                         *)
(* The variable ambient holds the object's audio fields, the Audio         *)
(* elements and the audio keys of localStorage:                            *)
(*   currentAmbient  this.currentAmbient                                   *)
(*   ambientSound    this.ambientSound: the element held, or NoElement     *)
(*   orphans         the tracks of the elements that are not paused and    *)
(*                   that no field holds                                   *)
(*   audioUnlocked   this.audioUnlocked                                    *)
(*   audioSources    this.audioSources: the tracks preloaded               *)
(*   isMuted, volume this.isMuted, this.volume (in hundredths)             *)
(*   pending         the calls of setAmbientSound that wait in             *)
(*                   `await this.preloadAudio(sound)`                      *)
(*   local           localStorage: ambientSound, isMuted, volume           *)
(*   storage         "ok": localStorage takes the writes; "full": setItem  *)
(*                   throws (quota exceeded, storage disabled), for as     *)
(*                   long as the page is open                              *)
(*   last            history: what the last event did                      *)
(*   ifWritten       history: the memory the last event would have left    *)
(*                   had every write of it succeeded                       *)
(* An element is [track, state, loop]; its state is "starting" (play() was *)
(* called, its promise is pending), "playing", or "silent" (paused, or     *)
(* play() was refused or failed). No handler reaches an element that no    *)
(* field holds: once silent it never sounds again and is dropped, and of   *)
(* those that sound only the tracks are kept. The preview element,         *)
(* the visualizer and the volume and muted attributes of the elements are  *)
(* not modelled.                                                           *)
(***************************************************************************)

\* this.volume = 0.3, in hundredths
DefaultVolume == 30

\* the selections in flight are counted up to this
MaxPending == 1
\* Focus completions of the audio specification are disabled at this many
MaxAudioSessions == 1

\* the keys of getAudioPath's table that the model selects, and 'none'
Tracks == {"rain", "forest"}
Sounds == Tracks \cup {"none"}

\* this.ambientSound = null
NoElement == [state |-> "null"]

\* the element is not paused: it sounds, or will as soon as it can
Audible(e) == e.state \in {"starting", "playing"}

\* what the last event did: the handler, the sound it selected, whether no
\* other event ran between its start and its end, the element its
\* stopAmbientSound stopped (as it left it), the audio failure it met, whether
\* an exception or a rejected promise left it
NoLast(op) ==
    [op |-> op, sound |-> "none", clean |-> TRUE, prev |-> NoElement,
     failure |-> "none", escaped |-> FALSE]

\* an event begins: it interleaves with every selection in flight
began(a, op) ==
    [a EXCEPT !.last = NoLast(op),
              !.pending = [i \in DOMAIN @ |-> [@[i] EXCEPT !.clean = FALSE]]]

\* pause(), currentTime = 0, this.ambientSound = null
stopAmbientSound(a) ==
    IF a.ambientSound # NoElement
    THEN [a EXCEPT !.last.prev = [a.ambientSound EXCEPT !.state = "silent"],
                   !.ambientSound = NoElement]
    ELSE a

\* if (this.ambientSound) this.ambientSound.pause()
pauseAmbientSound(a) ==
    IF a.ambientSound # NoElement
    THEN [a EXCEPT !.ambientSound.state = "silent"]
    ELSE a

\* this.ambientSound = new Audio(audioPath); loop = true; play(). The field is
\* overwritten: an element it held goes on as it was. outcome: "starting" -
\* play() took the request; "refused" - play() returned a rejected promise
\* (playback not allowed), the .catch shows a notification
playAmbientSound(a, outcome) ==
    IF a.currentAmbient = "none" \/ ~a.audioUnlocked THEN a
    ELSE [a EXCEPT
            !.orphans = IF Audible(a.ambientSound) THEN @ \cup {a.ambientSound.track} ELSE @,
            !.ambientSound = [track |-> a.currentAmbient,
                              state |-> IF outcome = "starting" THEN "starting"
                                        ELSE "silent",
                              loop |-> TRUE],
            !.last.failure = IF outcome = "starting" THEN @ ELSE "play"]

\* startTimer: `if (this.audioUnlocked && this.currentAmbient !== 'none')
\* this.playAmbientSound()`
startTimer_audio(a, outcome) ==
    IF a.audioUnlocked /\ a.currentAmbient # "none"
    THEN playAmbientSound(a, outcome)
    ELSE a

\* a write of a handler that has no try around localStorage.setItem: the
\* exception leaves the handler, unless its caller awaits it inside a try
written(a, key, value, guarded) ==
    IF a.storage = "ok" THEN [a EXCEPT !.local[key] = value]
    ELSE [a EXCEPT !.last.escaped = ~guarded]

\* setAmbientSound up to its await: stopAmbientSound(), this.currentAmbient = sound
setAmbientSound_begin(a, sound) ==
    [stopAmbientSound(a) EXCEPT !.currentAmbient = sound]

\* `await this.preloadAudio(sound)` waits for the network: the sound is not
\* silent, audio is unlocked and preloadAudio has not returned at once
awaitsPreload(a, sound) ==
    sound # "none" /\ a.audioUnlocked /\ sound \notin a.audioSources

\* preloadAudio once debugAudioFile has settled: the track is remembered, or
\* the catch shows a notification
preloadAudio_settled(a, sound, ok) ==
    IF ok THEN [a EXCEPT !.audioSources = @ \cup {sound}]
    ELSE [a EXCEPT !.last.failure = "preload"]

\* (mutant) the selection plays whether or not the timer runs
setAmbientSound_restAlwaysPlays(a, sound, running, outcome, guarded) ==
    written(IF a.audioUnlocked /\ sound # "none"
            THEN playAmbientSound(a, outcome) ELSE a,
            "ambientSound", sound, guarded)

\* setAmbientSound after its await: `if (this.isRunning && this.audioUnlocked
\* && sound !== 'none') this.playAmbientSound()`, then the write
setAmbientSound_rest(a, sound, running, outcome, guarded) ==
    written(IF running /\ a.audioUnlocked /\ sound # "none"
            THEN playAmbientSound(a, outcome) ELSE a,
            "ambientSound", sound, guarded)

\* a call of setAmbientSound: it ends at once, or waits for the preload
setAmbientSound(a, sound, running, outcome, guarded) ==
    LET begun == setAmbientSound_begin(a, sound)
    IN  IF awaitsPreload(begun, sound)
        THEN [begun EXCEPT
                !.pending = Append(@, [sound |-> sound, guarded |-> guarded,
                                       clean |-> TRUE, prev |-> begun.last.prev]),
                !.last.op = "selecting", !.last.sound = sound]
        ELSE [setAmbientSound_rest(begun, sound, running, outcome, guarded)
                EXCEPT !.last.op = "selected", !.last.sound = sound]

\* the preload of the selection in flight at index i settles, and the call
\* of setAmbientSound runs to its end; clean: no event ran since it began
setAmbientSound_resumed(a, i, clean, ok, running, outcome) ==
    LET p == a.pending[i]
        others == [j \in 1..(Len(a.pending) - 1) |->
                      IF j < i THEN a.pending[j] ELSE a.pending[j + 1]]
        loaded == preloadAudio_settled(
                      [a EXCEPT !.pending = others, !.last.prev = p.prev,
                                !.last.clean = clean], p.sound, ok)
    IN  [setAmbientSound_rest(loaded, p.sound, running, outcome, p.guarded)
            EXCEPT !.last.op = "selected", !.last.sound = p.sound]

\* the click listener of an ambient button. unlock: what the overlay ends in
\* when audio is not unlocked yet - "ok" (unlockAudio succeeded), "failed"
\* (it threw), "cancel" (the cancel button: setAmbientSound('none'))
ambientButtonClicked(a, sound, unlock, running, outcome) ==
    IF sound = "none" \/ a.audioUnlocked
    THEN setAmbientSound(a, sound, running, outcome, FALSE)
    ELSE IF unlock = "ok"
    THEN setAmbientSound([a EXCEPT !.audioUnlocked = TRUE], sound, running,
                         outcome, TRUE)
    ELSE IF unlock = "cancel"
    THEN setAmbientSound(a, "none", running, outcome, FALSE)
    ELSE a

\* the promise of an element's play() settles: it plays, or the file could
\* not be loaded and the .catch shows a notification
played(e, ok) == [e EXCEPT !.state = IF ok THEN "playing" ELSE "silent"]

\* this.isMuted = !this.isMuted, then the write
toggleMute(a) ==
    written([a EXCEPT !.isMuted = ~@], "isMuted", ~a.isMuted, FALSE)

\* this.volume = parseFloat(volume), then the write
setVolume(a, volume) ==
    written([a EXCEPT !.volume = volume], "volume", volume, FALSE)

\* saveProgress and saveSettings: the try around setItem keeps a failing
\* write inside; the store stays as it was
caught(before, after, storage) ==
    IF storage = "ok" THEN after ELSE [after EXCEPT !.store = before.store]

\* the fields of the object, the store apart
Memory(a, t) ==
    [currentAmbient |-> a.currentAmbient, ambientSound |-> a.ambientSound,
     orphans |-> a.orphans, audioUnlocked |-> a.audioUnlocked,
     audioSources |-> a.audioSources, isMuted |-> a.isMuted, volume |-> a.volume,
     pending |-> [i \in DOMAIN a.pending |-> a.pending[i].sound],
     timer |-> [t EXCEPT !.store = {}, !.lastCompleted = "none"]]

\* the constructor's audio fields, then loadSettings over a store without
\* audio keys: setAmbientSound('none') selects silence and writes it
constructed_audio(storage) ==
    [currentAmbient |-> "none", ambientSound |-> NoElement, orphans |-> {},
     audioUnlocked |-> FALSE, audioSources |-> {}, isMuted |-> FALSE,
     volume |-> DefaultVolume, pending |-> <<>>,
     local |-> [ambientSound |-> "none", isMuted |-> FALSE, volume |-> DefaultVolume],
     storage |-> storage, last |-> NoLast("load"), ifWritten |-> {}]

\* the positions of the volume slider the model moves it to
Volumes == {DefaultVolume, 100}
PlayOutcomes == {"starting", "refused"}
UnlockOutcomes == {"ok", "failed", "cancel"}
Storages == {"ok", "full"}

InitAudio ==
    /\ build = "app"
    /\ today = 1
    /\ \E st \in InitialStores(build, today) :
          Starts(loadSettings(constructed(build, st, today)))
    /\ freshRun = NoRun
    /\ startedAt = {}
    /\ lastOp = "none"
    /\ lastInput = NoInput
    /\ sw = NoWorker
    /\ pageOpen = TRUE
    /\ \E storage \in Storages :
          LET a == constructed_audio(storage)
          IN  ambient = [a EXCEPT !.ifWritten = Memory(a, Self)]

\* the history variables of the timer's specification are not kept here
AudioFrame ==
    /\ freshRun' = NoRun
    /\ startedAt' = {}
    /\ UNCHANGED <<lastOp, lastInput, sw>>

\* an event begins on the audio as it is, and on the audio as it would be
\* were localStorage taking the writes
Began(op) == began(ambient, op)
BeganWritable(op) == began([ambient EXCEPT !.storage = "ok"], op)

\* an event leaves the timer as t and the audio as a; aw is the audio it
\* would have left had its writes succeeded
Leaves(t, a, aw) ==
    /\ Becomes(caught(Self, t, ambient.storage))
    /\ ambient' = [a EXCEPT !.ifWritten = Memory(aw, t)]
    /\ AudioFrame

\* an ambient button is clicked
AmbientClick ==
    /\ pageOpen
    /\ \E sound \in Sounds, unlock \in UnlockOutcomes, outcome \in PlayOutcomes :
          LET clicked(a) == ambientButtonClicked(a, sound, unlock, isRunning, outcome)
          IN  /\ Len(clicked(ambient).pending) <= MaxPending
              /\ Leaves(Self, clicked(Began("click")),
                     clicked(BeganWritable("click")))
    /\ UNCHANGED pageOpen

\* the preload of a selection in flight settles
PreloadSettles ==
    /\ pageOpen
    /\ \E i \in DOMAIN ambient.pending, ok \in BOOLEAN, outcome \in PlayOutcomes :
          LET resumed(a) == setAmbientSound_resumed(a, i, ambient.pending[i].clean,
                                                    ok, isRunning, outcome)
          IN  Leaves(Self, resumed(Began("selected")),
                     resumed(BeganWritable("selected")))
    /\ UNCHANGED pageOpen

\* the start button, or the space key
TimerToggled ==
    /\ pageOpen
    /\ \E outcome \in PlayOutcomes :
          LET toggled(a) == IF isRunning THEN pauseAmbientSound(a)
                            ELSE startTimer_audio(a, outcome)
              op == IF isRunning THEN "pause" ELSE "start"
          IN  Leaves(toggleTimer(Self), toggled(Began(op)), toggled(BeganWritable(op)))
    /\ UNCHANGED pageOpen

\* the running phase runs to its completion: completeTimer pauses, saves the
\* progress and starts the next phase
PhaseCompletes ==
    /\ pageOpen
    /\ isRunning
    /\ currentMode = "focus" => focusDone < MaxAudioSessions
    /\ \E outcome \in PlayOutcomes :
          LET completed(a) == startTimer_audio(pauseAmbientSound(a), outcome)
          IN  Leaves(phaseElapsed(Self), completed(Began("complete")),
                     completed(BeganWritable("complete")))
    /\ UNCHANGED pageOpen

\* the promise of the play() of the element held settles
PlaySettles ==
    /\ pageOpen
    /\ ambient.ambientSound.state = "starting"
    /\ \E ok \in BOOLEAN :
          LET settled(a) ==
                 [a EXCEPT !.ambientSound = played(@, ok),
                           !.last.failure = IF ok THEN @ ELSE "play"]
          IN  Leaves(Self, settled(Began("play")),
                     settled(BeganWritable("play")))
    /\ UNCHANGED pageOpen

\* the playback of an element that no field holds fails (its file cannot be
\* loaded, the network drops): it falls silent
OrphanFails ==
    /\ pageOpen
    /\ \E track \in ambient.orphans :
          LET fallen(a) == [a EXCEPT !.orphans = @ \ {track}]
          IN  Leaves(Self, fallen(Began("play")),
                     fallen(BeganWritable("play")))
    /\ UNCHANGED pageOpen

\* the mute button
MuteClick ==
    /\ pageOpen
    /\ Leaves(Self, toggleMute(Began("mute")),
                     toggleMute(BeganWritable("mute")))
    /\ UNCHANGED pageOpen

\* the volume slider
VolumeInput ==
    /\ pageOpen
    /\ \E volume \in Volumes :
          LET moved(a) == setVolume(a, volume)
          IN  Leaves(Self, moved(Began("volume")),
                     moved(BeganWritable("volume")))
    /\ UNCHANGED pageOpen

\* the page is closed: the beforeunload listener saves progress and settings
PageUnloads ==
    /\ pageOpen
    /\ LET closed(a) == a
       IN  Leaves(beforeUnload(Self), closed(Began("unload")),
                     closed(BeganWritable("unload")))
    /\ pageOpen' = FALSE

NextAudio ==
    \/ AmbientClick
    \/ PreloadSettles
    \/ TimerToggled
    \/ PhaseCompletes
    \/ PlaySettles
    \/ OrphanFails
    \/ MuteClick
    \/ VolumeInput
    \/ PageUnloads

SpecAudio == InitAudio /\ [][NextAudio]_vars

-----------------------------------------------------------------------------
(* Claims about persistence failures and the ambient audio *)

\* C27: a write to localStorage that fails stays inside the operation that
\* made it - no exception or rejected promise leaves the handler - and the
\* object's fields afterwards are what they would be had the write succeeded.
C27_FailedWritesStayInside ==
    /\ ~ambient.last.escaped
    /\ ambient.ifWritten = Memory(ambient, Self)

C29_PauseSilencesAllAmbientAudio ==
    /\ ambient.orphans = {}
    /\ ~isRunning => ~Audible(ambient.ambientSound)

\* C30: after a failure to preload or to play the selected track the selection
\* is the silent one.
C30_FailureDegradesToSilent ==
    ambient.last.failure # "none" => ambient.currentAmbient = "none"

-----------------------------------------------------------------------------
(***************************************************************************)
(* Notifications of the service worker (src/unnamed/part_000)              *)
(*                                                                         *)
(* Here the variable sw holds the windows of the app and the notifications *)
(* on display:                                                             *)
(*   windows    the window clients of the worker's origin that are open    *)
(*   focused    one of them has the focus                                  *)
(*   shown      the notifications on display                               *)
(*   waitUntil  the promise the last event handed to event.waitUntil       *)
(*   last       history: the action of the last notificationclick, the     *)
(*              windows open when it came, and what the handler did        *)
(***************************************************************************)

\* the app windows are counted up to this
MaxWindows == 3
\* the notifications on display are counted up to this
MaxShown == 2

\* event.action: the two buttons of the notification, '' for its body
NotificationActions == {"start", "snooze", ""}

\* the push listener: self.registration.showNotification
pushListener(w) ==
    [w EXCEPT !.shown = @ + 1, !.waitUntil = "resolved"]

\* the notificationclick listener. Inside the callback of matchAll the
\* parameter `clients` is the array of window clients: it hides the global
\* clients, and `clients.openWindow` on it is not a function
notificationclickListener(w, action) ==
    LET closed == [w EXCEPT !.shown = @ - 1,
                            !.last = [action |-> action, had |-> w.windows,
                                      result |-> "none"]]
    IN  IF action = "start"
        THEN IF w.windows > 0
             THEN [closed EXCEPT !.focused = TRUE, !.waitUntil = "resolved",
                                 !.last.result = "focused"]
             ELSE [closed EXCEPT !.waitUntil = "rejected"]
        ELSE IF action = "snooze"
        THEN [closed EXCEPT !.waitUntil = "none"]
        ELSE [closed EXCEPT !.windows = @ + 1, !.focused = TRUE,
                            !.waitUntil = "resolved", !.last.result = "opened"]

InitNotify ==
    /\ build = "app"
    /\ today = 1
    /\ \E st \in InitialStores(build, today) :
          Starts(loadSettings(constructed(build, st, today)))
    /\ freshRun = NoRun
    /\ startedAt = {}
    /\ lastOp = "none"
    /\ lastInput = NoInput
    /\ pageOpen = TRUE
    /\ ambient = NoAmbient
    /\ \E n \in 0..1 :
          sw = [state |-> "activated", windows |-> n, focused |-> FALSE, shown |-> 0,
                waitUntil |-> "none",
                last |-> [action |-> "none", had |-> 0, result |-> "none"]]

\* a push message arrives
PushEvent ==
    /\ sw.shown < MaxShown
    /\ sw' = pushListener(sw)
    /\ UNCHANGED pageVars

\* the user clicks a button of a notification, or its body
NotificationClick ==
    /\ sw.shown > 0
    /\ \E action \in NotificationActions :
          /\ action = "" => sw.windows < MaxWindows
          /\ sw' = notificationclickListener(sw, action)
    /\ UNCHANGED pageVars

\* the user opens the app in a new window
WindowOpens ==
    /\ sw.windows < MaxWindows
    /\ sw' = [sw EXCEPT !.windows = @ + 1, !.focused = TRUE]
    /\ UNCHANGED pageVars

\* the user closes a window of the app
WindowCloses ==
    /\ sw.windows > 0
    /\ sw' = [sw EXCEPT !.windows = @ - 1, !.focused = FALSE]
    /\ UNCHANGED pageVars

\* the user turns to another application
WindowBlurs ==
    /\ sw.focused
    /\ sw' = [sw EXCEPT !.focused = FALSE]
    /\ UNCHANGED pageVars

NextNotify ==
    \/ PushEvent
    \/ NotificationClick
    \/ WindowOpens
    \/ WindowCloses
    \/ WindowBlurs

SpecNotify == InitNotify /\ [][NextNotify]_vars

\* C31: whatever the interaction with a notification - the start button, the
\* snooze button, the body - the worker focuses a window of the app when one
\* is open and opens a window only when none is.
C31_NotificationFocusesOrOpens ==
    sw.last.action # "none" =>
        IF sw.last.had > 0 THEN sw.last.result = "focused"
        ELSE sw.last.result = "opened"

-----------------------------------------------------------------------------
(* Claims about the auto-start policies *)

\* C32: in src/js/app.js every completion, of whichever mode, leaves the next
\* phase running at once: isRunning, timeLeft = totalTime = the new mode's
\* setting in seconds, and exactly one interval live.
C32_AppAutoStartIsUniform ==
    [][(build = "app" /\ lastCompleted' # "none") =>
          /\ isRunning'
          /\ timeLeft' = totalTime'
          /\ totalTime' = settings'[currentMode'] * SecondsPerMinute
          /\ interval' = "live"
          /\ leaked' = 0]_vars

\* a long break of app.js has completed and the Focus phase after it runs
C32_Witness ==
    /\ build = "app"
    /\ lastCompleted = "long"
    /\ isRunning
    /\ currentMode = "focus"
    /\ timeLeft = totalTime

\* C33: in part_002 the timeout that a Focus completion sets only ever starts
\* the break it was set for, untouched: when its callback starts the timer, the
\* mode is a break and no second of the phase has run (a countdown that the
\* user started and paused is not started again); and a completed break leaves
\* the timer paused in Focus mode with no timeout pending.
C33_AutoStartOnlyStartsItsBreak ==
    /\ [][(autoStart # "none" /\ autoStart' = "none" /\ ~isRunning /\ isRunning') =>
             (currentMode # "focus" /\ timeLeft = totalTime)]_vars
    /\ [][(build = "part002" /\ lastCompleted' \in {"short", "long"}) =>
             (~isRunning' /\ currentMode' = "focus" /\ autoStart' = "none")]_vars

-----------------------------------------------------------------------------
(* Claims about the days *)

\* C34: in part_002 the streak grows by at most 1 a calendar day: counted from
\* the empty store of day 1 it never exceeds the number of the day, the
\* increment of loadSettings and that of updateStreak never both counting one
\* day (stated for the time zones whose days all last 24 hours).
C34_StreakGrowsOnceADay ==
    (build = "part002" /\ clock.long = {} /\ clock.short = {}) => streak <= today

\* C35: sessionsToday, totalFocusTime and the record saved with today's date
\* count the Focus sessions of the current calendar day only: in app.js the
\* first Focus completion of a day - the record stored before it bears an
\* earlier date - leaves sessionsToday = 1, totalFocusTime = the focus setting
\* and a record of today with sessions = 1, also when the page stayed open
\* over midnight.
C35_CountersAreOfToday ==
    [][(/\ build = "app"
        /\ pageOpen
        /\ lastCompleted' = "focus"
        /\ store.progress.saved
        /\ store.progress.date < today) =>
          /\ sessionsToday' = 1
          /\ totalFocusTime' = settings.focus
          /\ store'.progress.date = today
          /\ store'.progress.sessions = 1
          /\ store'.progress.focusTime = settings.focus]_vars

-----------------------------------------------------------------------------
(* Claims about overlapping selections and the startup of the audio *)

\* C36: once every selection in flight has settled, the selection stored in
\* localStorage is this.currentAmbient, the selection the user made last
\* (where localStorage takes the writes).
C36_LastSelectionWins ==
    (ambient.pending = <<>> /\ ambient.storage = "ok") =>
        ambient.local.ambientSound = ambient.currentAmbient

\* loadSettings over the audio keys of localStorage: the volume is clamped to
\* [0, 1], isMuted is read, setAmbientSound('none') runs (an async call that
\* nothing awaits) and the stored selection is kept in lastSelectedSound
loaded_audio(local, storage) ==
    LET c == constructed_audio(storage)
        read == [c EXCEPT !.local = local,
                          !.volume = IF local.volume < 0 THEN 0
                                     ELSE IF local.volume > 100 THEN 100
                                     ELSE local.volume,
                          !.isMuted = local.isMuted]
        silent == setAmbientSound(read, "none", FALSE, "refused", FALSE)
    IN  [lastSelectedSound |-> local.ambientSound] @@
        [silent EXCEPT !.last.op = "load"]

\* what localStorage can hold of the audio when the page is opened
StoredAudio ==
    [ambientSound : Sounds, isMuted : BOOLEAN, volume : Volumes]

\* the page is closed, over any stored audio
InitStartup ==
    /\ build = "app"
    /\ today = 1
    /\ \E st \in InitialStores(build, today) :
          Starts(constructed(build, st, today))
    /\ freshRun = NoRun
    /\ startedAt = {}
    /\ lastOp = "none"
    /\ lastInput = NoInput
    /\ sw = NoWorker
    /\ pageOpen = FALSE
    /\ \E local \in StoredAudio, storage \in Storages :
          LET a == [constructed_audio(storage) EXCEPT !.local = local]
          IN  ambient = [a EXCEPT !.ifWritten = Memory(a, Self)]

\* the page is opened: the constructor runs loadSettings
PageOpens ==
    /\ ~pageOpen
    /\ LET t == loadSettings(constructed(build, store, today))
           a == loaded_audio(ambient.local, ambient.storage)
       IN  /\ Becomes(t)
           /\ ambient' = [a EXCEPT !.ifWritten =
                             Memory(loaded_audio(ambient.local, "ok"), t)]
    /\ AudioFrame
    /\ pageOpen' = TRUE

NextStartup ==
    \/ PageOpens
    \/ AmbientClick
    \/ PreloadSettles
    \/ MuteClick
    \/ VolumeInput
    \/ PageUnloads

SpecStartup == InitStartup /\ [][NextStartup]_vars

\* C40: startup of src/js/app.js begins in silent mode and keeps the user's
\* preference: after loading, currentAmbient is 'none' and the selection in
\* localStorage is the one that was stored before the load.
C40_StartupKeepsPreference ==
    [][(~pageOpen /\ pageOpen') =>
          /\ ambient'.currentAmbient = "none"
          /\ ambient'.local.ambientSound = ambient.local.ambientSound]_vars

-----------------------------------------------------------------------------
(* The network response of the cache-first and network-first handlers *)

\* C37: in the cache-first handler after a cache miss and in the network-first
\* handler, a network fetch that succeeded makes the handler return that
\* network response, also when opening the cache or storing the copy fails; a
\* 404, a 503 or a cached copy is returned only when the fetch itself failed.
C37_NetworkResponseIsReturned ==
    LET r == sw.rq
    IN  (/\ r.handler \in {"audio", "netfirst"}
         /\ r.pc = "done"
         /\ r.fetches > 0) =>
            /\ r.net \in {"ok", "notok"} => r.response = "network"
            /\ r.response \in {"404", "503", "cached"} => r.net = "failed"

-----------------------------------------------------------------------------
(* The minutes credited for a Focus phase *)

\* C38: the focus minutes credited for a completed Focus phase are the length
\* of the phase that ran, totalTime / 60 of that phase, also when
\* updateSettings changed the focus setting while the phase was running.
C38_CreditIsPhaseLength ==
    [][(build = "app" /\ lastCompleted' = "focus") =>
          totalFocusTime' = totalFocusTime + (totalTime \div SecondsPerMinute)]_vars

-----------------------------------------------------------------------------
(* The countdown left to run: ticks that keep firing *)

\* the statistics are counted up to this; the countdown never reads them
MaxCounted == 4

UpTo(n, max) == IF n > max THEN max ELSE n

\* the timer with its statistics counted up to MaxCounted
Counted(t) ==
    [t EXCEPT !.sessionsToday = UpTo(@, MaxCounted),
              !.totalFocusTime = UpTo(@, MaxCounted),
              !.focusDone = UpTo(@, MaxCounted),
              !.completedCycles = UpTo(@, MaxCounted),
              !.store.progress.sessions = UpTo(@, MaxCounted),
              !.store.progress.focusTime = UpTo(@, MaxCounted),
              !.store.progress.cycles = UpTo(@, MaxCounted)]

\* lastOp = "started": the timer was started and the user has done nothing
\* since; "input": the user has acted after the first start
Untouched == lastOp \notin {"started", "input"}

\* the mode tabs and the settings fields before the first start
RunSetup ==
    /\ Untouched
    /\ ModeTabClick \/ UpdateSettings

\* the first press of the start button
RunFirstStart ==
    /\ Untouched
    /\ ~isRunning
    /\ Becomes(toggleTimer(Self))
    /\ Recorded(NoRun, {}, "started")

\* the setInterval callback, every second for as long as the interval lives
RunTick ==
    /\ interval = "live"
    /\ autoStart # "due"
    /\ Becomes(Counted([tick(Self) EXCEPT !.autoStart =
                           IF autoStart = "armed" THEN "due" ELSE @]))
    /\ Recorded(NoRun, {}, lastOp)

\* the setTimeout callback of part_002's completeTimer
RunAutoStartFire ==
    /\ autoStart # "none"
    /\ Becomes(autoStartFired(Self))
    /\ Recorded(NoRun, {}, lastOp)

\* the document is hidden or shown again: no input to the page
RunVisibilityChange ==
    \E hidden \in BOOLEAN :
        /\ Becomes(visibilityChanged(Self, hidden))
        /\ Recorded(NoRun, {}, lastOp)

\* the user acts after the first start: start button, reset, a mode tab, the
\* Focus length field
RunInput ==
    /\ ~Untouched
    /\ \/ Becomes(toggleTimer(Self))
       \/ Becomes(resetTimer(Self))
       \/ \E mode \in Modes : Becomes(modeTabClicked(Self, mode))
       \/ \E f \in FocusInputs(build) :
             Becomes(updateSettings(Self, f, settings.short, settings.long))
    /\ Recorded(NoRun, {}, "input")

NextRun ==
    \/ RunSetup
    \/ RunFirstStart
    \/ RunTick
    \/ RunAutoStartFire
    \/ RunVisibilityChange
    \/ RunInput

\* a live interval keeps firing and a pending timeout fires
SpecRun ==
    /\ Init
    /\ [][NextRun]_vars
    /\ WF_vars(RunTick)
    /\ WF_vars(RunAutoStartFire)

\* C39 as stated: a running timer whose ticks keep firing, with no pause or
\* reset, completes its phase, and completion runs once for the phase; in
\* app.js, with no user input after the first start, the timer is in a long
\* break infinitely often.
C39_TimerKeepsCycling ==
    /\ isRunning ~> (~isRunning \/ lastCompleted # "none")
    /\ [][lastCompleted' # "none" =>
             /\ isRunning
             /\ timeLeft = 1
             /\ lastCompleted' = currentMode
             /\ timeLeft' = totalTime'
             /\ timeLeft' >= SecondsPerMinute]_vars
    /\ (build = "app" /\ <>[](lastOp = "started")) => []<>(currentMode = "long")

\* C39 amended: as above, and in app.js the long break recurs when after the
\* first start there is no user input and the timer is never paused, that is,
\* the page is not hidden while a break is running.
C39_TimerKeepsCyclingUnpaused ==
    /\ isRunning ~> (~isRunning \/ lastCompleted # "none")
    /\ [][lastCompleted' # "none" =>
             /\ isRunning
             /\ timeLeft = 1
             /\ lastCompleted' = currentMode
             /\ timeLeft' = totalTime'
             /\ timeLeft' >= SecondsPerMinute]_vars
    /\ (build = "app" /\ <>[](lastOp = "started" /\ isRunning)) =>
           []<>(currentMode = "long")

\* app.js, untouched since its first start, runs the long break after four
\* Focus phases
C39_Witness ==
    /\ build = "app"
    /\ lastOp = "started"
    /\ isRunning
    /\ currentMode = "long"
    /\ focusDone = MaxCounted
    /\ timeLeft < totalTime
====
